---- MODULE Spec2Model ----
(***************************************************************************)
(* A model of the four sort engines of the repository (quickSort.py,       *)
(* margeSort.py, heapSort.py, bucketSort.py) and of the step recorders of  *)
(* the animation scripts.                                                  *)
(*                                                                         *)
(* Python lists are modelled as functions over 0..n-1, so that every index *)
(* expression of the source (2*i+1, mid+1+j, i+1, ...) is kept as written. *)
(* An element is a pair <<value, original index>>; Python's comparisons    *)
(* are made on the value alone (key), the original index is the identity   *)
(* that lets stability and identity threading be observed.  For bucket     *)
(* sort a value v stands for the number v / Den, and int(n * val) is       *)
(* computed on that quotient exactly.                                      *)
(***************************************************************************)
EXTENDS Integers, Sequences, FiniteSets, Bags, TLC

VARIABLES
    ARRAY,        \* the input list (test_arrays.ARRAY / FLOAT_ARRAY)
    sorted_arr,   \* the list the last engine call sorted in place (or sim)
    events,       \* the event list the last recorder call returned
    levels,       \* build_tree's levels
    merge_order,  \* build_tree's merge_order
    op,           \* the operation performed last
    outcome,      \* "returned", or the exception it raised
    trials,       \* benchmark / run: the list each trial got and left behind
    locals        \* low, high, pi of a partition call; i of a heapSort step;
                  \* the states a scene's replay loop went through

vars == <<ARRAY, sorted_arr, events, levels, merge_order, op, outcome,
          trials, locals>>

\* ---------------------------------------------------------------- bounds
MaxLen == 4       \* longest input list with every value in [0, 1)
MaxOutLen == 2    \* longest input list that may hold values outside [0, 1)
Den == 4          \* bucket sort: the value v stands for the number v / Den
MaxRuns == 2      \* most trials of one benchmark call

\* the values inside [0, 1), and all values: -2 .. 1 in steps of 1 / Den
DomainValues == 0 .. Den - 1
Values == (0 - 2 * Den) .. Den
InDomain(v) == 0 <= v /\ v < Den

\* ---------------------------------------------------------- list helpers
Len0(a) == Cardinality(DOMAIN a)
Empty == <<>>
Append0(lst, x) == [k \in 0 .. Len0(lst) |-> IF k < Len0(lst) THEN lst[k] ELSE x]
key(e) == e[1]
\* the list a caller builds from plain values: element k is <<value, k>>
Tag(vals) == [k \in DOMAIN vals |-> <<vals[k], k>>]
ValuesOf(a) == [k \in DOMAIN a |-> key(a[k])]

\* the Python list written as the sequence seq
List0(seq) == [k \in 0 .. Len(seq) - 1 |-> seq[k + 1]]

\* the list of the quicksort scenario, and the result expected for it
Scenario == List0(<<5, 3, 8, 4, 2>>)
ScenarioSorted == List0(<<2, 3, 4, 5, 8>>)

Inputs ==
    {Tag(v) : v \in UNION {[0 .. n - 1 -> DomainValues] : n \in 0 .. MaxLen}
                     \cup UNION {[0 .. n - 1 -> Values] : n \in 0 .. MaxOutLen}
                     \cup {Scenario}}

\* ------------------------------------------------------------- quickSort
swap(arr, i, j) == [arr EXCEPT ![i] = arr[j], ![j] = arr[i]]

\* for j in range(low, high): if arr[j] < pivot: i += 1; swap(arr, i, j)
RECURSIVE partition_loop(_, _, _, _, _)

\* partition_loop with the test arr[j] <= pivot
RECURSIVE partition_loop_le(_, _, _, _, _)
partition_loop_le(arr, pivot, i, j, high) ==
    IF j >= high THEN [arr |-> arr, i |-> i]
    ELSE IF key(arr[j]) <= key(pivot)
         THEN partition_loop_le(swap(arr, i + 1, j), pivot, i + 1, j + 1, high)
         ELSE partition_loop_le(arr, pivot, i, j + 1, high)

partition_loop(arr, pivot, i, j, high) ==
    IF j >= high THEN [arr |-> arr, i |-> i]
    ELSE IF key(arr[j]) < key(pivot)
         THEN partition_loop(swap(arr, i + 1, j), pivot, i + 1, j + 1, high)
         ELSE partition_loop(arr, pivot, i, j + 1, high)

\* partition without the final swap(arr, i + 1, high)
partition_no_pivot_swap(arr, low, high) ==
    LET r == partition_loop(arr, arr[high], low - 1, low, high)
    IN  [arr |-> r.arr, pi |-> r.i + 1]

partition(arr, low, high) ==
    LET pivot == arr[high]
        r == partition_loop(arr, pivot, low - 1, low, high)
    IN  [arr |-> swap(r.arr, r.i + 1, high), pi |-> r.i + 1]

\* quickSort that recurses into the left part only
RECURSIVE quickSort_left_only(_, _, _)
quickSort_left_only(arr, low, high) ==
    IF low < high
    THEN LET p == partition(arr, low, high)
         IN  quickSort_left_only(p.arr, low, p.pi - 1)
    ELSE arr

RECURSIVE quickSort(_, _, _)
quickSort(arr, low, high) ==
    IF low < high
    THEN LET p == partition(arr, low, high)
         IN  quickSort(quickSort(p.arr, low, p.pi - 1), p.pi + 1, high)
    ELSE arr

\* benchmark(arr, runs): arr is the caller's list; trials logs, for each
\* trial, the list the engine was given and the list it left behind.
RECURSIVE quick_benchmark_loop(_, _, _)

\* quick_benchmark_loop that sorts the caller's list itself: data = arr
RECURSIVE quick_benchmark_loop_no_copy(_, _, _)
quick_benchmark_loop_no_copy(arr, runs, log) ==
    IF runs = 0 THEN [arr |-> arr, trials |-> log]
    ELSE LET data == arr
             done == quickSort(data, 0, Len0(data) - 1)
         IN  quick_benchmark_loop_no_copy(
                 done, runs - 1, Append(log, [given |-> data, left |-> done]))

\* for _ in range(runs): data = arr.copy(); quickSort(data, 0, len(data) - 1)
quick_benchmark_loop(arr, runs, log) ==
    IF runs = 0 THEN [arr |-> arr, trials |-> log]
    ELSE LET data == arr
             done == quickSort(data, 0, Len0(data) - 1)
         IN  quick_benchmark_loop(
                 arr, runs - 1, Append(log, [given |-> data, left |-> done]))

quick_benchmark(arr, runs) == quick_benchmark_loop(arr, runs, << >>)

\* ------------------------------------------------------------- mergeSort
\* while i < n1 and j < n2 ... ; while i < n1 ... ; while j < n2 ...
RECURSIVE merge_loop(_, _, _, _, _, _)

\* merge_loop with the test L[i] < R[j]: a tie takes from the right run
RECURSIVE merge_loop_right_on_ties(_, _, _, _, _, _)
merge_loop_right_on_ties(arr, L, R, i, j, k) ==
    IF i < Len0(L) /\ j < Len0(R)
    THEN IF key(L[i]) < key(R[j])
         THEN merge_loop_right_on_ties([arr EXCEPT ![k] = L[i]], L, R, i + 1, j, k + 1)
         ELSE merge_loop_right_on_ties([arr EXCEPT ![k] = R[j]], L, R, i, j + 1, k + 1)
    ELSE IF i < Len0(L)
         THEN merge_loop_right_on_ties([arr EXCEPT ![k] = L[i]], L, R, i + 1, j, k + 1)
         ELSE IF j < Len0(R)
              THEN merge_loop_right_on_ties([arr EXCEPT ![k] = R[j]], L, R, i, j + 1, k + 1)
              ELSE arr

\* merge_loop without the second loop (while i < n1)
RECURSIVE merge_loop_no_left_tail(_, _, _, _, _, _)
merge_loop_no_left_tail(arr, L, R, i, j, k) ==
    IF i < Len0(L) /\ j < Len0(R)
    THEN IF key(L[i]) <= key(R[j])
         THEN merge_loop_no_left_tail([arr EXCEPT ![k] = L[i]], L, R, i + 1, j, k + 1)
         ELSE merge_loop_no_left_tail([arr EXCEPT ![k] = R[j]], L, R, i, j + 1, k + 1)
    ELSE IF j < Len0(R)
         THEN merge_loop_no_left_tail([arr EXCEPT ![k] = R[j]], L, R, i, j + 1, k + 1)
         ELSE arr

merge_loop(arr, L, R, i, j, k) ==
    LET n1 == Len0(L)
        n2 == Len0(R)
    IN  IF i < n1 /\ j < n2
        THEN IF key(L[i]) <= key(R[j])
             THEN merge_loop([arr EXCEPT ![k] = L[i]], L, R, i + 1, j, k + 1)
             ELSE merge_loop([arr EXCEPT ![k] = R[j]], L, R, i, j + 1, k + 1)
        ELSE IF i < n1
             THEN merge_loop([arr EXCEPT ![k] = L[i]], L, R, i + 1, j, k + 1)
             ELSE IF j < n2
                  THEN merge_loop([arr EXCEPT ![k] = R[j]], L, R, i, j + 1, k + 1)
                  ELSE arr

merge(arr, left, mid, right) ==
    LET n1 == mid - left + 1
        n2 == right - mid
        L == [i \in 0 .. n1 - 1 |-> arr[left + i]]
        R == [j \in 0 .. n2 - 1 |-> arr[mid + 1 + j]]
    IN  merge_loop(arr, L, R, 0, 0, left)

RECURSIVE mergeSort(_, _, _)
mergeSort(arr, left, right) ==
    IF left < right
    THEN LET mid == (left + right) \div 2
         IN  merge(mergeSort(mergeSort(arr, left, mid), mid + 1, right),
                   left, mid, right)
    ELSE arr

\* -------------------------------------------------------------- heapSort
RECURSIVE heapify(_, _, _)

\* heapify that looks at the left child only
heapify_left_only(arr, n, i) ==
    LET l == 2 * i + 1
        largest == IF l < n /\ key(arr[l]) > key(arr[i]) THEN l ELSE i
    IN  IF largest # i THEN heapify(swap(arr, i, largest), n, largest) ELSE arr

heapify(arr, n, i) ==
    LET l == 2 * i + 1
        r == 2 * i + 2
        largest1 == IF l < n /\ key(arr[l]) > key(arr[i]) THEN l ELSE i
        largest == IF r < n /\ key(arr[r]) > key(arr[largest1]) THEN r ELSE largest1
    IN  IF largest # i THEN heapify(swap(arr, i, largest), n, largest) ELSE arr

\* for i in range(n // 2 - 1, -1, -1): heapify(arr, n, i)
RECURSIVE build_loop(_, _, _)

\* build_loop over range(n // 2 - 1, 0, -1): the root is never heapified
RECURSIVE build_loop_skip_root(_, _, _)
build_loop_skip_root(arr, n, i) ==
    IF i < 1 THEN arr ELSE build_loop_skip_root(heapify(arr, n, i), n, i - 1)

build_loop(arr, n, i) ==
    IF i < 0 THEN arr ELSE build_loop(heapify(arr, n, i), n, i - 1)

\* for i in range(n - 1, 0, -1): arr[0], arr[i] = arr[i], arr[0]; heapify(arr, i, 0)
RECURSIVE extract_loop(_, _)

\* extract_loop that leaves the root in place when arr[i] has the same value
RECURSIVE extract_loop_skip_ties(_, _)
extract_loop_skip_ties(arr, i) ==
    IF i < 1 THEN arr
    ELSE IF key(arr[i]) = key(arr[0]) THEN extract_loop_skip_ties(arr, i - 1)
    ELSE extract_loop_skip_ties(heapify(swap(arr, 0, i), i, 0), i - 1)

extract_loop(arr, i) ==
    IF i < 1 THEN arr ELSE extract_loop(heapify(swap(arr, 0, i), i, 0), i - 1)

heapSort(arr) ==
    LET n == Len0(arr)
    IN  extract_loop(build_loop(arr, n, (n \div 2) - 1), n - 1)

\* ----------------------------------------------------------- bucket_sort
\* Python's int() truncates toward zero; the argument is num / den, den > 0
PyInt(num, den) == IF num >= 0 THEN num \div den ELSE 0 - ((0 - num) \div den)
Min(a, b) == IF a <= b THEN a ELSE b

\* while j >= 0 and bucket[j] > key: bucket[j + 1] = bucket[j]; j -= 1
RECURSIVE isort_while(_, _, _)

\* isort_while with the loop test j > 0
RECURSIVE isort_while_off_by_one(_, _, _)
isort_while_off_by_one(bucket, k, j) ==
    IF j > 0 /\ key(bucket[j]) > key(k)
    THEN isort_while_off_by_one([bucket EXCEPT ![j + 1] = bucket[j]], k, j - 1)
    ELSE [bucket EXCEPT ![j + 1] = k]

isort_while(bucket, k, j) ==
    IF j >= 0 /\ key(bucket[j]) > key(k)
    THEN isort_while([bucket EXCEPT ![j + 1] = bucket[j]], k, j - 1)
    ELSE [bucket EXCEPT ![j + 1] = k]

RECURSIVE isort_for(_, _)
isort_for(bucket, i) ==
    IF i >= Len0(bucket) THEN bucket
    ELSE isort_for(isort_while(bucket, bucket[i], i - 1), i + 1)

insertion_sort(bucket) == isort_for(bucket, 1)

\* bucket_index that rounds n * val to the nearest integer and does not clamp
bucket_index_rounded(n, v) == PyInt(2 * n * v + Den, 2 * Den)

\* bucket_index without the clamp: bi = int(n * val)
bucket_index_no_clamp(n, v) == PyInt(n * v, Den)

\* bucket_index that numbers the buckets from 1
bucket_index_one_based(n, v) == PyInt(n * v, Den) + 1

\* bi = min(int(n * val), n - 1), val = v / Den
bucket_index(n, v) == Min(PyInt(n * v, Den), n - 1)

\* buckets[bi] of a Python list of length n: a negative bi counts from the
\* end, an index outside -n .. n-1 raises IndexError
ListSlot(n, bi) == IF 0 <= bi /\ bi < n THEN bi
                   ELSE IF 0 - n <= bi /\ bi < 0 THEN n + bi
                   ELSE 0 - 1

\* for val in arr: bi = ...; buckets[bi].append(val)
RECURSIVE scatter(_, _, _)
scatter(arr, buckets, k) ==
    LET n == Len0(arr)
        s == ListSlot(n, bucket_index(n, key(arr[k])))
    IN  IF k >= n THEN [buckets |-> buckets, raised |-> FALSE]
        ELSE IF s < 0 THEN [buckets |-> buckets, raised |-> TRUE]
        ELSE scatter(arr, [buckets EXCEPT ![s] = Append0(@, arr[k])], k + 1)

\* index = 0; for bucket in buckets: for val in bucket: arr[index] = val; index += 1
RECURSIVE concatenate(_, _, _, _, _)
concatenate(arr, buckets, b, s, index) ==
    IF b >= Len0(buckets) THEN arr
    ELSE IF s >= Len0(buckets[b]) THEN concatenate(arr, buckets, b + 1, 0, index)
    ELSE concatenate([arr EXCEPT ![index] = buckets[b][s]], buckets, b, s + 1, index + 1)

bucket_sort(arr) ==
    LET n == Len0(arr)
        sc == scatter(arr, [b \in 0 .. n - 1 |-> Empty], 0)
        sorted_buckets == [b \in 0 .. n - 1 |-> insertion_sort(sc.buckets[b])]
    IN  IF sc.raised
        THEN [arr |-> arr, outcome |-> "IndexError"]
        ELSE [arr |-> concatenate(arr, sorted_buckets, 0, 0, 0), outcome |-> "returned"]

\* for _ in range(runs): data = arr.copy(); bucket_sort(data); an exception
\* of bucket_sort ends the benchmark
RECURSIVE bucket_benchmark_loop(_, _, _)
bucket_benchmark_loop(arr, runs, log) ==
    IF runs = 0 THEN [arr |-> arr, trials |-> log, outcome |-> "returned"]
    ELSE LET data == arr
             r == bucket_sort(data)
             log1 == Append(log, [given |-> data, left |-> r.arr])
         IN  IF r.outcome # "returned"
             THEN [arr |-> arr, trials |-> log1, outcome |-> r.outcome]
             ELSE bucket_benchmark_loop(arr, runs - 1, log1)

bucket_benchmark(arr, runs) == bucket_benchmark_loop(arr, runs, << >>)

\* ------------------------------------------------------- quicksort_analysis
\* for j in range(low, high): if arr[j] < pivot: i += 1; swap arr[i], arr[j]
RECURSIVE analysis_loop(_, _, _, _, _)
analysis_loop(arr, pivot, i, j, high) ==
    IF j >= high THEN [arr |-> arr, i |-> i]
    ELSE IF key(arr[j]) < key(pivot)
         THEN analysis_loop(swap(arr, i + 1, j), pivot, i + 1, j + 1, high)
         ELSE analysis_loop(arr, pivot, i, j + 1, high)

RECURSIVE analysis_quicksort(_, _, _)
analysis_quicksort(arr, low, high) ==
    IF low < high
    THEN LET r == analysis_loop(arr, arr[high], low - 1, low, high)
             placed == swap(r.arr, r.i + 1, high)
             pi == r.i + 1
         IN  analysis_quicksort(analysis_quicksort(placed, low, pi - 1), pi + 1, high)
    ELSE arr

\* data = arr[:]; quicksort(data, 0, len(data) - 1); return data
analysis_run(arr) ==
    LET data == arr
    IN  [arr |-> arr, data |-> analysis_quicksort(data, 0, Len0(data) - 1)]

\* for _ in range(runs): data = arr[:]; quicksort(data, 0, len(data) - 1)
RECURSIVE analysis_benchmark_loop(_, _, _)
analysis_benchmark_loop(arr, runs, log) ==
    IF runs = 0 THEN [arr |-> arr, trials |-> log]
    ELSE LET data == arr
             done == analysis_quicksort(data, 0, Len0(data) - 1)
         IN  analysis_benchmark_loop(
                 arr, runs - 1, Append(log, [given |-> data, left |-> done]))

analysis_benchmark(arr, runs) == analysis_benchmark_loop(arr, runs, << >>)

\* ------------------------------------------- quicksort_animation.record_events
\* The recorder's state: the caller's list (original), the working copy
\* (data), the event list and sorted_set.  An event is the dict that push
\* appends: its kind, the snapshot data[:] and the keyword fields.  The msg
\* strings are display text and are left out.
quick_push(st, kind, kw) ==
    [st EXCEPT !.events = Append(@, [kind |-> kind, data |-> st.data] @@ kw)]

RECURSIVE quick_rec_loop(_, _, _, _, _, _)

\* quick_rec_loop over range(lo, hi + 1): the pivot is compared with itself
RECURSIVE quick_rec_loop_through_hi(_, _, _, _, _, _)
quick_rec_loop_through_hi(st, pivot, i, j, lo, hi) ==
    IF j > hi THEN [st |-> st, i |-> i]
    ELSE LET s1 == quick_push(st, "compare",
                              [lo |-> lo, hi |-> hi, pivot_idx |-> hi, j |-> j])
         IN  IF key(s1.data[j]) < key(pivot)
             THEN LET i1 == i + 1
                      s2 == IF i1 # j
                            THEN [quick_push(s1, "swap",
                                             [lo |-> lo, hi |-> hi, pivot_idx |-> hi,
                                              a |-> i1, b |-> j])
                                  EXCEPT !.data = swap(@, i1, j)]
                            ELSE s1
                  IN  quick_rec_loop_through_hi(s2, pivot, i1, j + 1, lo, hi)
             ELSE quick_rec_loop_through_hi(s1, pivot, i, j + 1, lo, hi)

\* quick_rec_loop without the test i != j: self-swaps are recorded too
RECURSIVE quick_rec_loop_self_swaps(_, _, _, _, _, _)
quick_rec_loop_self_swaps(st, pivot, i, j, lo, hi) ==
    IF j >= hi THEN [st |-> st, i |-> i]
    ELSE LET s1 == quick_push(st, "compare",
                              [lo |-> lo, hi |-> hi, pivot_idx |-> hi, j |-> j])
         IN  IF key(s1.data[j]) < key(pivot)
             THEN LET i1 == i + 1
                      s2 == [quick_push(s1, "swap",
                                        [lo |-> lo, hi |-> hi, pivot_idx |-> hi,
                                         a |-> i1, b |-> j])
                             EXCEPT !.data = swap(@, i1, j)]
                  IN  quick_rec_loop_self_swaps(s2, pivot, i1, j + 1, lo, hi)
             ELSE quick_rec_loop_self_swaps(s1, pivot, i, j + 1, lo, hi)

quick_rec_loop(st, pivot, i, j, lo, hi) ==
    IF j >= hi THEN [st |-> st, i |-> i]
    ELSE LET s1 == quick_push(st, "compare",
                              [lo |-> lo, hi |-> hi, pivot_idx |-> hi, j |-> j])
         IN  IF key(s1.data[j]) < key(pivot)
             THEN LET i1 == i + 1
                      s2 == IF i1 # j
                            THEN [quick_push(s1, "swap",
                                             [lo |-> lo, hi |-> hi, pivot_idx |-> hi,
                                              a |-> i1, b |-> j])
                                  EXCEPT !.data = swap(@, i1, j)]
                            ELSE s1
                  IN  quick_rec_loop(s2, pivot, i1, j + 1, lo, hi)
             ELSE quick_rec_loop(s1, pivot, i, j + 1, lo, hi)

\* quick_rec_partition that places the pivot without recording the swap
quick_rec_partition_silent_pivot(st, lo, hi) ==
    LET pivot == st.data[hi]
        s0 == quick_push(st, "pivot", [lo |-> lo, hi |-> hi, pivot_idx |-> hi])
        r == quick_rec_loop(s0, pivot, lo - 1, lo, lo, hi)
        pi == r.i + 1
        s1 == [r.st EXCEPT !.data = swap(@, pi, hi)]
        s2 == [s1 EXCEPT !.sorted_set = @ \cup {pi}]
    IN  [st |-> quick_push(s2, "sorted_idx",
                           [lo |-> lo, hi |-> hi, idx |-> pi,
                            sorted_set |-> s2.sorted_set]),
         pi |-> pi]

\* quick_rec_partition that takes the first element of the range as the pivot
quick_rec_partition_first_pivot(st, lo, hi) ==
    LET pivot == st.data[lo]
        s0 == quick_push(st, "pivot", [lo |-> lo, hi |-> hi, pivot_idx |-> lo])
        r == quick_rec_loop(s0, pivot, lo - 1, lo, lo, hi)
        pi == r.i + 1
        s1 == IF pi # hi
              THEN [quick_push(r.st, "swap",
                               [lo |-> lo, hi |-> hi, pivot_idx |-> lo,
                                a |-> pi, b |-> hi])
                    EXCEPT !.data = swap(@, pi, hi)]
              ELSE r.st
        s2 == [s1 EXCEPT !.sorted_set = @ \cup {pi}]
    IN  [st |-> quick_push(s2, "sorted_idx",
                           [lo |-> lo, hi |-> hi, idx |-> pi,
                            sorted_set |-> s2.sorted_set]),
         pi |-> pi]

quick_rec_partition(st, lo, hi) ==
    LET pivot == st.data[hi]
        s0 == quick_push(st, "pivot", [lo |-> lo, hi |-> hi, pivot_idx |-> hi])
        r == quick_rec_loop(s0, pivot, lo - 1, lo, lo, hi)
        pi == r.i + 1
        s1 == IF pi # hi
              THEN [quick_push(r.st, "swap",
                               [lo |-> lo, hi |-> hi, pivot_idx |-> hi,
                                a |-> pi, b |-> hi])
                    EXCEPT !.data = swap(@, pi, hi)]
              ELSE r.st
        s2 == [s1 EXCEPT !.sorted_set = @ \cup {pi}]
    IN  [st |-> quick_push(s2, "sorted_idx",
                           [lo |-> lo, hi |-> hi, idx |-> pi,
                            sorted_set |-> s2.sorted_set]),
         pi |-> pi]

RECURSIVE quick_rec_qs(_, _, _)

\* quick_rec_qs without the elif lo == hi branch
RECURSIVE quick_rec_qs_no_single(_, _, _)
quick_rec_qs_no_single(st, lo, hi) ==
    IF lo < hi
    THEN LET p == quick_rec_partition(st, lo, hi)
         IN  quick_rec_qs_no_single(quick_rec_qs_no_single(p.st, lo, p.pi - 1),
                                    p.pi + 1, hi)
    ELSE st

quick_rec_qs(st, lo, hi) ==
    IF lo < hi
    THEN LET p == quick_rec_partition(st, lo, hi)
         IN  quick_rec_qs(quick_rec_qs(p.st, lo, p.pi - 1), p.pi + 1, hi)
    ELSE IF lo = hi
         THEN LET s1 == [st EXCEPT !.sorted_set = @ \cup {lo}]
              IN  quick_push(s1, "sorted_idx",
                             [lo |-> lo, hi |-> hi, idx |-> lo,
                              sorted_set |-> s1.sorted_set])
         ELSE st

\* quick_record_events whose push stores data itself, not data[:]: every
\* event then shows the list as it is at the end
quick_record_events_shared_snapshot(original) ==
    LET st0 == [original |-> original, data |-> original,
                events |-> <<>>, sorted_set |-> {}]
        st1 == quick_rec_qs(st0, 0, Len0(original) - 1)
        st2 == quick_push(st1, "done", [sorted_set |-> st1.sorted_set])
    IN  [st2 EXCEPT !.events =
                 [k \in DOMAIN st2.events |-> [st2.events[k] EXCEPT !.data = st2.data]]]

\* quick_record_events that works on the caller's list: data = original
quick_record_events_no_copy(original) ==
    LET st0 == [original |-> original, data |-> original,
                events |-> <<>>, sorted_set |-> {}]
        st1 == quick_rec_qs(st0, 0, Len0(original) - 1)
        st2 == quick_push(st1, "done", [sorted_set |-> st1.sorted_set])
    IN  [st2 EXCEPT !.original = st2.data]

quick_record_events(original) ==
    LET st0 == [original |-> original, data |-> original,
                events |-> <<>>, sorted_set |-> {}]
        st1 == quick_rec_qs(st0, 0, Len0(original) - 1)
    IN  quick_push(st1, "done", [sorted_set |-> st1.sorted_set])

\* ------------------------------------------------- QuickSortScene.construct
\* slot = list(range(n)); at_pos = list(range(n)); k counts the events the
\* replay loop has processed
quick_scene_init(n) ==
    [slot |-> [v \in 0 .. n - 1 |-> v], at_pos |-> [p \in 0 .. n - 1 |-> p], k |-> 0]

\* do_swap that writes at_pos[sa], at_pos[sb] = va, vb
quick_do_swap_stale_at_pos(sc, va, vb) ==
    LET sa == sc.slot[va]
        sb == sc.slot[vb]
    IN  [sc EXCEPT !.slot = [[@ EXCEPT ![va] = sb] EXCEPT ![vb] = sa],
                   !.at_pos = [[@ EXCEPT ![sa] = va] EXCEPT ![sb] = vb]]

\* do_swap: sa, sb = slot[va], slot[vb]; slot[va], slot[vb] = sb, sa;
\* at_pos[sb], at_pos[sa] = va, vb
quick_do_swap(sc, va, vb) ==
    LET sa == sc.slot[va]
        sb == sc.slot[vb]
    IN  [sc EXCEPT !.slot = [[@ EXCEPT ![va] = sb] EXCEPT ![vb] = sa],
                   !.at_pos = [[@ EXCEPT ![sb] = va] EXCEPT ![sa] = vb]]

\* one pass of for ev in events: only a swap event changes the maps
quick_scene_step(sc, ev) ==
    LET moved == IF ev.kind = "swap"
                 THEN quick_do_swap(sc, sc.at_pos[ev.a], sc.at_pos[ev.b])
                 ELSE sc
    IN  [moved EXCEPT !.k = @ + 1]

\* for ev in events: ...; seen collects the maps as they are when each event
\* is taken from the list, and at the end of the loop
RECURSIVE quick_scene_loop(_, _, _)
quick_scene_loop(sc, evs, seen) ==
    IF sc.k >= Len(evs) THEN Append(seen, sc)
    ELSE quick_scene_loop(quick_scene_step(sc, evs[sc.k + 1]), evs, Append(seen, sc))

\* -------------------------------------------- heapsort_animation.record_events
heap_push(st, kind, kw) ==
    [st EXCEPT !.events = Append(@, [kind |-> kind, arr |-> st.arr] @@ kw)]

\* def heapify(n, i): while True: ...
RECURSIVE heap_rec_heapify(_, _, _)
heap_rec_heapify(st, n, i) ==
    LET l == 2 * i + 1
        r == 2 * i + 2
        s1 == heap_push(st, "compare",
                        [n |-> n, i |-> i,
                         l |-> IF l < n THEN l ELSE 0 - 1,
                         r |-> IF r < n THEN r ELSE 0 - 1,
                         largest |-> i])
        largest1 == IF l < n /\ key(st.arr[l]) > key(st.arr[i]) THEN l ELSE i
        largest == IF r < n /\ key(st.arr[r]) > key(st.arr[largest1])
                   THEN r ELSE largest1
        s2 == heap_push(s1, "largest_found", [n |-> n, i |-> i, largest |-> largest])
    IN  IF largest # i
        THEN LET s3 == [heap_push(s2, "swap", [n |-> n, a |-> i, b |-> largest])
                        EXCEPT !.arr = swap(@, i, largest)]
                 s4 == heap_push(s3, "after_swap", [n |-> n, a |-> i, b |-> largest])
             IN  heap_rec_heapify(s4, n, largest)
        ELSE heap_push(s2, "heapify_done", [n |-> n, i |-> i])

\* for i in range(n // 2 - 1, -1, -1): push("start_heapify"); heapify(n, i)
RECURSIVE heap_rec_build(_, _, _)
heap_rec_build(st, n, i) ==
    IF i < 0 THEN st
    ELSE heap_rec_build(
             heap_rec_heapify(heap_push(st, "start_heapify", [n |-> n, i |-> i]), n, i),
             n, i - 1)

\* for size in range(n - 1, 0, -1): ...
RECURSIVE heap_rec_extract(_, _)

\* heap_rec_extract that also skips the heapify of a size-2 heap
heap_rec_extract_skip_two(st, size) ==
    IF size < 1 THEN st
    ELSE LET s1 == [heap_push(st, "extract", [n |-> size + 1, idx |-> size])
                    EXCEPT !.arr = swap(@, 0, size)]
             s2 == heap_push(s1, "after_extract", [n |-> size, idx |-> size])
             s3 == IF size > 2 THEN heap_rec_heapify(s2, size, 0) ELSE s2
         IN  heap_rec_extract(s3, size - 1)

heap_rec_extract(st, size) ==
    IF size < 1 THEN st
    ELSE LET s1 == [heap_push(st, "extract", [n |-> size + 1, idx |-> size])
                    EXCEPT !.arr = swap(@, 0, size)]
             s2 == heap_push(s1, "after_extract", [n |-> size, idx |-> size])
             s3 == IF size > 1 THEN heap_rec_heapify(s2, size, 0) ELSE s2
         IN  heap_rec_extract(s3, size - 1)

heap_record_events(original) ==
    LET n == Len0(original)
        st0 == [original |-> original, arr |-> original, events |-> <<>>]
        s1 == heap_push(st0, "phase", [phase |-> "build"])
        s2 == heap_rec_build(s1, n, (n \div 2) - 1)
        s3 == heap_push(s2, "heap_ready", << >>)
        s4 == heap_push(s3, "phase", [phase |-> "extract"])
        s5 == heap_rec_extract(s4, n - 1)
    IN  heap_push(s5, "done", << >>)

\* -------------------------------------------------- HeapSortScene.construct
\* val = arr[:]; heap_size = n; sorted_from = n; k counts the events the
\* replay loop has processed
heap_scene_init(arr) ==
    [val |-> arr, heap_size |-> Len0(arr), sorted_from |-> Len0(arr), k |-> 0]

\* do_swap(a, b): val[a], val[b] = val[b], val[a]
heap_do_swap(sc, a, b) == [sc EXCEPT !.val = swap(@, a, b)]

\* the replay loop with an extract branch that only recolours the root
heap_scene_step_no_extract_swap(sc, ev) ==
    LET moved ==
            IF ev.kind = "swap" THEN heap_do_swap(sc, ev.a, ev.b)
            ELSE IF ev.kind = "extract"
                 THEN [sc EXCEPT !.heap_size = @ - 1, !.sorted_from = @ - 1]
                 ELSE sc
    IN  [moved EXCEPT !.k = @ + 1]

\* one pass of for ev in events: swap does do_swap(a, b); extract shrinks
\* the heap and does do_swap(0, idx)
heap_scene_step(sc, ev) ==
    LET moved ==
            IF ev.kind = "swap" THEN heap_do_swap(sc, ev.a, ev.b)
            ELSE IF ev.kind = "extract"
                 THEN heap_do_swap([sc EXCEPT !.heap_size = @ - 1,
                                              !.sorted_from = @ - 1],
                                   0, ev.idx)
                 ELSE sc
    IN  [moved EXCEPT !.k = @ + 1]

\* for ev in events: ...; seen collects the scene's state as it is when each
\* event is taken from the list, and at the end of the loop
RECURSIVE heap_scene_loop(_, _, _)
heap_scene_loop(sc, evs, seen) ==
    IF sc.k >= Len(evs) THEN Append(seen, sc)
    ELSE heap_scene_loop(heap_scene_step(sc, evs[sc.k + 1]), evs, Append(seen, sc))

\* ------------------------------------------ bucketsort_animation.record_events
\* buckets hold original indices (oi); vals / bucket are the lists of the
\* bucket being insertion-sorted (bucket aliases buckets[bi]).
bucket_push(st, kind, kw) ==
    [st EXCEPT !.evts = Append(@, [kind |-> kind] @@ kw)]

\* for oi, val in enumerate(arr): ...; buckets[bi].append(oi)
RECURSIVE bucket_rec_scatter(_, _, _)
bucket_rec_scatter(st, arr, oi) ==
    LET n == Len0(arr)
        val == key(arr[oi])
        bi == bucket_index(n, val)
        s == ListSlot(n, bi)
        s1 == bucket_push(st, "scatter", [oi |-> oi, val |-> val, bi |-> bi])
    IN  IF oi >= n THEN st
        ELSE IF s < 0 THEN [s1 EXCEPT !.raised = TRUE]
        ELSE bucket_rec_scatter([s1 EXCEPT !.buckets[s] = Append0(@, oi)], arr, oi + 1)

\* while j >= 0 and vals[j] > key: ...; then vals[j + 1] = key ...
RECURSIVE bucket_rec_while(_, _, _, _, _)

\* bucket_rec_while that shifts vals but leaves the indices of bucket in place
RECURSIVE bucket_rec_while_vals_only(_, _, _, _, _)
bucket_rec_while_vals_only(st, bi, k, key_oi, j) ==
    IF j >= 0 /\ st.vals[j] > k
    THEN LET s1 == bucket_push(st, "isort_compare",
                               [bi |-> bi, slot_j |-> j, oi_j |-> st.bucket[j],
                                key_oi |-> key_oi, key |-> k, cmp |-> st.vals[j]])
             s2 == [s1 EXCEPT !.vals[j + 1] = s1.vals[j]]
             s3 == bucket_push(s2, "isort_shift",
                               [bi |-> bi, from_slot |-> j, to_slot |-> j + 1,
                                oi |-> s2.bucket[j + 1]])
         IN  bucket_rec_while_vals_only(s3, bi, k, key_oi, j - 1)
    ELSE bucket_push([st EXCEPT !.vals[j + 1] = k, !.bucket[j + 1] = key_oi],
                     "isort_place", [bi |-> bi, slot |-> j + 1, oi |-> key_oi])

bucket_rec_while(st, bi, k, key_oi, j) ==
    IF j >= 0 /\ st.vals[j] > k
    THEN LET s1 == bucket_push(st, "isort_compare",
                               [bi |-> bi, slot_j |-> j, oi_j |-> st.bucket[j],
                                key_oi |-> key_oi, key |-> k, cmp |-> st.vals[j]])
             s2 == [s1 EXCEPT !.vals[j + 1] = s1.vals[j],
                              !.bucket[j + 1] = s1.bucket[j]]
             s3 == bucket_push(s2, "isort_shift",
                               [bi |-> bi, from_slot |-> j, to_slot |-> j + 1,
                                oi |-> s2.bucket[j + 1]])
         IN  bucket_rec_while(s3, bi, k, key_oi, j - 1)
    ELSE bucket_push([st EXCEPT !.vals[j + 1] = k, !.bucket[j + 1] = key_oi],
                     "isort_place", [bi |-> bi, slot |-> j + 1, oi |-> key_oi])

\* for i in range(1, len(vals)): ...
RECURSIVE bucket_rec_for(_, _, _)
bucket_rec_for(st, bi, i) ==
    IF i >= Len0(st.vals) THEN st
    ELSE LET k == st.vals[i]
             key_oi == st.bucket[i]
             s1 == bucket_push(st, "isort_key", [bi |-> bi, slot |-> i, oi |-> key_oi])
         IN  bucket_rec_for(bucket_rec_while(s1, bi, k, key_oi, i - 1), bi, i + 1)

\* for bi, bucket in enumerate(buckets): ...
RECURSIVE bucket_rec_isort(_, _, _)
bucket_rec_isort(st, arr, bi) ==
    IF bi >= Len0(st.buckets) THEN st
    ELSE LET bucket == st.buckets[bi]
             vals == [s \in DOMAIN bucket |-> key(arr[bucket[s]])]
         IN  IF Len0(bucket) <= 1
             THEN bucket_rec_isort(
                      IF Len0(bucket) = 1
                      THEN bucket_push(st, "bucket_done", [bi |-> bi])
                      ELSE st,
                      arr, bi + 1)
             ELSE LET s1 == bucket_push(st, "isort_start",
                                        [bi |-> bi, count |-> Len0(bucket)])
                      s2 == bucket_rec_for([s1 EXCEPT !.vals = vals, !.bucket = bucket],
                                           bi, 1)
                      s3 == [s2 EXCEPT !.buckets[bi] = s2.bucket]
                  IN  bucket_rec_isort(bucket_push(s3, "bucket_done", [bi |-> bi]),
                                       arr, bi + 1)

\* dest = 0; for bi, bucket in enumerate(buckets): for slot, oi in enumerate(bucket): ...
RECURSIVE bucket_rec_gather(_, _, _, _)

\* bucket_rec_gather that restarts dest at every bucket
bucket_rec_gather_dest_reset(st, bi, slot, dest) ==
    IF bi >= Len0(st.buckets) THEN st
    ELSE IF slot >= Len0(st.buckets[bi]) THEN bucket_rec_gather(st, bi + 1, 0, 0)
    ELSE bucket_rec_gather(
             bucket_push(st, "gather",
                         [bi |-> bi, slot |-> slot, oi |-> st.buckets[bi][slot],
                          dest |-> dest]),
             bi, slot + 1, dest + 1)

bucket_rec_gather(st, bi, slot, dest) ==
    IF bi >= Len0(st.buckets) THEN st
    ELSE IF slot >= Len0(st.buckets[bi]) THEN bucket_rec_gather(st, bi + 1, 0, dest)
    ELSE bucket_rec_gather(
             bucket_push(st, "gather",
                         [bi |-> bi, slot |-> slot, oi |-> st.buckets[bi][slot],
                          dest |-> dest]),
             bi, slot + 1, dest + 1)

bucket_record_events(arr) ==
    LET n == Len0(arr)
        st0 == [arr |-> arr, evts |-> <<>>, buckets |-> [b \in 0 .. n - 1 |-> Empty],
                vals |-> Empty, bucket |-> Empty, raised |-> FALSE]
        s1 == bucket_rec_scatter(st0, arr, 0)
        s2 == bucket_rec_isort(s1, arr, 0)
        s3 == bucket_rec_gather(bucket_push(s2, "gather_start", << >>), 0, 0, 0)
    IN  IF s1.raised
        THEN [arr |-> s1.arr, evts |-> <<>>, buckets |-> Empty, outcome |-> "IndexError"]
        ELSE [arr |-> s3.arr, evts |-> bucket_push(s3, "done", << >>).evts,
              buckets |-> s3.buckets, outcome |-> "returned"]

\* ------------------------------------------------ mergesort_animation.build_tree
\* levels[depth] of the source is levels[depth + 1] here (a TLA+ sequence)
RECURSIVE tree_pad(_, _)
tree_pad(lvls, depth) ==        \* while len(levels) <= depth: levels.append([])
    IF Len(lvls) <= depth THEN tree_pad(Append(lvls, << >>), depth) ELSE lvls

RECURSIVE tree_recurse(_, _, _, _)

\* tree_recurse that appends (left, mid, right) before it recurses
tree_recurse_pre_order(st, left, right, depth) ==
    LET lv == tree_pad(st.levels, depth)
        node == [left |-> left, right |-> right, depth |-> depth,
                 index |-> Len(lv[depth + 1])]
        s1 == [st EXCEPT !.levels = [lv EXCEPT ![depth + 1] = Append(@, node)]]
    IN  IF left < right
        THEN LET mid == (left + right) \div 2
                 s2 == [s1 EXCEPT !.merge_order = Append(@, <<left, mid, right>>)]
                 s3 == tree_recurse(s2, left, mid, depth + 1)
             IN  tree_recurse(s3, mid + 1, right, depth + 1)
        ELSE s1

\* tree_recurse that appends (left, mid, right) between its two calls
tree_recurse_in_order(st, left, right, depth) ==
    LET lv == tree_pad(st.levels, depth)
        node == [left |-> left, right |-> right, depth |-> depth,
                 index |-> Len(lv[depth + 1])]
        s1 == [st EXCEPT !.levels = [lv EXCEPT ![depth + 1] = Append(@, node)]]
    IN  IF left < right
        THEN LET mid == (left + right) \div 2
                 s2 == tree_recurse(s1, left, mid, depth + 1)
                 s3 == [s2 EXCEPT !.merge_order = Append(@, <<left, mid, right>>)]
             IN  tree_recurse(s3, mid + 1, right, depth + 1)
        ELSE s1

tree_recurse(st, left, right, depth) ==
    LET lv == tree_pad(st.levels, depth)
        node == [left |-> left, right |-> right, depth |-> depth,
                 index |-> Len(lv[depth + 1])]
        s1 == [st EXCEPT !.levels = [lv EXCEPT ![depth + 1] = Append(@, node)]]
    IN  IF left < right
        THEN LET mid == (left + right) \div 2
                 s2 == tree_recurse(s1, left, mid, depth + 1)
                 s3 == tree_recurse(s2, mid + 1, right, depth + 1)
             IN  [s3 EXCEPT !.merge_order = Append(@, <<left, mid, right>>)]
        ELSE s1

build_tree(arr) ==
    tree_recurse([arr |-> arr, levels |-> << >>, merge_order |-> << >>],
                 0, Len0(arr) - 1, 0)

\* ------------------------------- MergeSortScene.construct, merge phase (on sim)
\* a[lo:hi] with 0 <= lo: the slice is clamped to the list
Slice(a, lo, hi) ==
    LET h == Min(hi, Len0(a))
    IN  [k \in 0 .. h - lo - 1 |-> a[lo + k]]
Concat0(a, b) ==
    [k \in 0 .. Len0(a) + Len0(b) - 1 |-> IF k < Len0(a) THEN a[k] ELSE b[k - Len0(a)]]

RECURSIVE scene_merge_loop(_, _, _, _, _)
scene_merge_loop(L, R, merged, i, j) ==
    IF i < Len0(L) /\ j < Len0(R)
    THEN IF key(L[i]) <= key(R[j])
         THEN scene_merge_loop(L, R, Append0(merged, L[i]), i + 1, j)
         ELSE scene_merge_loop(L, R, Append0(merged, R[j]), i, j + 1)
    ELSE \* merged += L[i:] + R[j:]
         Concat0(merged, Concat0(Slice(L, i, Len0(L)), Slice(R, j, Len0(R))))

scene_merge(sim, left, mid, right) ==
    LET L == Slice(sim, left, mid + 1)
        R == Slice(sim, mid + 1, right + 1)
        merged == scene_merge_loop(L, R, Empty, 0, 0)
    IN  \* for k, v in enumerate(merged): sim[left + k] = v
        [k \in DOMAIN sim |->
            IF left <= k /\ k < left + Len0(merged) THEN merged[k - left] ELSE sim[k]]

\* sim = arr[:]; for left, mid, right in merge_order: ...
RECURSIVE scene_merge_phase(_, _, _)
scene_merge_phase(sim, order, m) ==
    IF m > Len(order) THEN sim
    ELSE scene_merge_phase(
             scene_merge(sim, order[m][1], order[m][2], order[m][3]),
             order, m + 1)

\* ------------------------------------------------------------ state machine
\* Every script is one process run: it starts from the list test_arrays.py
\* defines and performs one operation on it.
Init ==
    /\ ARRAY \in Inputs
    /\ sorted_arr = Empty
    /\ events = << >>
    /\ levels = << >>
    /\ merge_order = << >>
    /\ op = "init"
    /\ outcome = "none"
    /\ trials = << >>
    /\ locals = << >>

\* quickSort.py __main__: sorted_arr = ARRAY[:]; quickSort(sorted_arr, 0, len - 1)
QuickSortMain ==
    /\ op = "init"
    /\ sorted_arr' = quickSort(ARRAY, 0, Len0(ARRAY) - 1)
    /\ op' = "quickSort"
    /\ outcome' = "returned"
    /\ events' = << >>
    /\ UNCHANGED <<ARRAY, levels, merge_order>>
    /\ UNCHANGED <<trials, locals>>

\* margeSort.py __main__
MergeSortMain ==
    /\ op = "init"
    /\ sorted_arr' = mergeSort(ARRAY, 0, Len0(ARRAY) - 1)
    /\ op' = "mergeSort"
    /\ outcome' = "returned"
    /\ events' = << >>
    /\ UNCHANGED <<ARRAY, levels, merge_order>>
    /\ UNCHANGED <<trials, locals>>

\* heapSort.py __main__
HeapSortMain ==
    /\ op = "init"
    /\ sorted_arr' = heapSort(ARRAY)
    /\ op' = "heapSort"
    /\ outcome' = "returned"
    /\ events' = << >>
    /\ UNCHANGED <<ARRAY, levels, merge_order>>
    /\ UNCHANGED <<trials, locals>>

\* bucketSort.py __main__; an exception leaves the copy as it was
BucketSortMain ==
    /\ op = "init"
    /\ LET r == bucket_sort(ARRAY)
       IN  /\ sorted_arr' = r.arr
           /\ outcome' = r.outcome
    /\ op' = "bucket_sort"
    /\ events' = << >>
    /\ UNCHANGED <<ARRAY, levels, merge_order>>
    /\ UNCHANGED <<trials, locals>>

\* QuickSortScene.construct: arr = list(ARRAY); events = record_events(arr);
\* then the replay loop; locals keeps the maps seen at each event
QuickRecord ==
    /\ op = "init"
    /\ LET r == quick_record_events(ARRAY)
       IN  /\ events' = r.events
           /\ ARRAY' = r.original
           /\ locals' = quick_scene_loop(quick_scene_init(Len0(ARRAY)), r.events, << >>)
    /\ op' = "quick_record"
    /\ outcome' = "returned"
    /\ sorted_arr' = Empty
    /\ UNCHANGED <<levels, merge_order, trials>>

\* HeapSortScene.construct: events = record_events(arr); then the replay
\* loop; locals keeps the scene state seen at each event
HeapRecord ==
    /\ op = "init"
    /\ LET r == heap_record_events(ARRAY)
       IN  /\ events' = r.events
           /\ ARRAY' = r.original
           /\ locals' = heap_scene_loop(heap_scene_init(ARRAY), r.events, << >>)
    /\ op' = "heap_record"
    /\ outcome' = "returned"
    /\ sorted_arr' = Empty
    /\ UNCHANGED <<levels, merge_order, trials>>

\* BucketSortScene.construct: evts, _ = record_events(arr)
BucketRecord ==
    /\ op = "init"
    /\ LET r == bucket_record_events(ARRAY)
       IN  /\ events' = r.evts
           /\ ARRAY' = r.arr
           /\ outcome' = r.outcome
    /\ op' = "bucket_record"
    /\ sorted_arr' = Empty
    /\ UNCHANGED <<levels, merge_order>>
    /\ UNCHANGED <<trials, locals>>

\* MergeSortScene.construct: levels, merge_order = build_tree(arr); then the
\* merge phase replays merge_order on sim = arr[:]
MergeScene ==
    /\ op = "init"
    /\ LET t == build_tree(ARRAY)
       IN  /\ levels' = t.levels
           /\ merge_order' = t.merge_order
           /\ ARRAY' = t.arr
           /\ sorted_arr' = scene_merge_phase(t.arr, t.merge_order, 1)
    /\ op' = "merge_scene"
    /\ outcome' = "returned"
    /\ events' = << >>
    /\ UNCHANGED <<trials, locals>>

\* a second call of the engine on the list the first call left behind
QuickSortAgain ==
    /\ op = "quickSort"
    /\ sorted_arr' = quickSort(sorted_arr, 0, Len0(sorted_arr) - 1)
    /\ op' = "quickSort_again"
    /\ UNCHANGED <<ARRAY, events, levels, merge_order, outcome, trials, locals>>

MergeSortAgain ==
    /\ op = "mergeSort"
    /\ sorted_arr' = mergeSort(sorted_arr, 0, Len0(sorted_arr) - 1)
    /\ op' = "mergeSort_again"
    /\ UNCHANGED <<ARRAY, events, levels, merge_order, outcome, trials, locals>>

HeapSortAgain ==
    /\ op = "heapSort"
    /\ sorted_arr' = heapSort(sorted_arr)
    /\ op' = "heapSort_again"
    /\ UNCHANGED <<ARRAY, events, levels, merge_order, outcome, trials, locals>>

BucketSortAgain ==
    /\ op = "bucket_sort"
    /\ outcome = "returned"
    /\ LET r == bucket_sort(sorted_arr)
       IN  /\ sorted_arr' = r.arr
           /\ outcome' = r.outcome
    /\ op' = "bucket_sort_again"
    /\ UNCHANGED <<ARRAY, events, levels, merge_order, trials, locals>>

\* quickSort.py: benchmark(arr, runs)
QuickBenchmark ==
    /\ op = "init"
    /\ \E runs \in 1 .. MaxRuns :
          LET r == quick_benchmark(ARRAY, runs)
          IN  /\ ARRAY' = r.arr
              /\ trials' = r.trials
    /\ op' = "quick_benchmark"
    /\ outcome' = "returned"
    /\ UNCHANGED <<sorted_arr, events, levels, merge_order, locals>>

\* bucketSort.py: benchmark(arr, runs)
BucketBenchmark ==
    /\ op = "init"
    /\ \E runs \in 1 .. MaxRuns :
          LET r == bucket_benchmark(ARRAY, runs)
          IN  /\ ARRAY' = r.arr
              /\ trials' = r.trials
              /\ outcome' = r.outcome
    /\ op' = "bucket_benchmark"
    /\ UNCHANGED <<sorted_arr, events, levels, merge_order, locals>>

\* quicksort_analysis.py: run(arr); the list it returns is kept in sorted_arr
AnalysisRun ==
    /\ op = "init"
    /\ LET r == analysis_run(ARRAY)
       IN  /\ ARRAY' = r.arr
           /\ sorted_arr' = r.data
           /\ trials' = <<[given |-> ARRAY, left |-> r.data]>>
    /\ op' = "analysis_run"
    /\ outcome' = "returned"
    /\ UNCHANGED <<events, levels, merge_order, locals>>

\* quicksort_analysis.py: benchmark(arr, runs)
AnalysisBenchmark ==
    /\ op = "init"
    /\ \E runs \in 1 .. MaxRuns :
          LET r == analysis_benchmark(ARRAY, runs)
          IN  /\ ARRAY' = r.arr
              /\ trials' = r.trials
    /\ op' = "analysis_benchmark"
    /\ outcome' = "returned"
    /\ UNCHANGED <<sorted_arr, events, levels, merge_order, locals>>

\* quickSort.py: a call partition(arr, low, high) with 0 <= low < high < len(arr);
\* sorted_arr is the list the call worked on
PartitionCall ==
    /\ op = "init"
    /\ \E low, high \in DOMAIN ARRAY :
          /\ low < high
          /\ LET p == partition(ARRAY, low, high)
             IN  /\ sorted_arr' = p.arr
                 /\ locals' = [low |-> low, high |-> high, pi |-> p.pi]
    /\ op' = "partition"
    /\ outcome' = "returned"
    /\ UNCHANGED <<ARRAY, events, levels, merge_order, trials>>

\* heapSort.py, heapSort(arr) step by step: the build loop; sorted_arr is the
\* list being sorted, locals.i the index the next extraction iteration uses
HeapBuild ==
    /\ op = "init"
    /\ LET n == Len0(ARRAY)
       IN  /\ sorted_arr' = build_loop(ARRAY, n, (n \div 2) - 1)
           /\ locals' = [i |-> n - 1]
    /\ op' = "heap_built"
    /\ outcome' = "none"
    /\ UNCHANGED <<ARRAY, events, levels, merge_order, trials>>

\* one iteration of for i in range(n - 1, 0, -1)
HeapExtractStep ==
    /\ op \in {"heap_built", "heap_extract"}
    /\ locals.i >= 1
    /\ sorted_arr' = heapify(swap(sorted_arr, 0, locals.i), locals.i, 0)
    /\ locals' = [i |-> locals.i - 1]
    /\ op' = "heap_extract"
    /\ outcome' = IF locals.i = 1 THEN "returned" ELSE "none"
    /\ UNCHANGED <<ARRAY, events, levels, merge_order, trials>>

Next ==
    \/ QuickSortMain
    \/ MergeSortMain
    \/ HeapSortMain
    \/ BucketSortMain
    \/ QuickRecord
    \/ HeapRecord
    \/ BucketRecord
    \/ MergeScene
    \/ QuickSortAgain
    \/ MergeSortAgain
    \/ HeapSortAgain
    \/ BucketSortAgain
    \/ QuickBenchmark
    \/ BucketBenchmark
    \/ AnalysisRun
    \/ AnalysisBenchmark
    \/ PartitionCall
    \/ HeapBuild
    \/ HeapExtractStep

Spec == Init /\ [][Next]_vars

\* ------------------------------------------------- the calls, step by step
\* A second specification runs quickSort and mergeSort one activation per
\* step and the heapsort recorder's heapify one loop iteration per step;
\* the other engines and recorders are run whole, as above.  sorted_arr is
\* the list worked on and locals holds one record.  For the two recursive
\* sorts it is [stack, ran, made]: the pending activations (next one
\* first), the activation that ran last and the calls it made.  For heapify
\* it is [n, i, from, was]: the loop variables, the i the call started from
\* and the i of one iteration before.  outcome stays "none" until the
\* outermost call has returned.
TermValues == 0 .. 2
TermInputs ==
    {Tag(v) : v \in UNION {[0 .. n - 1 -> TermValues] : n \in 0 .. MaxLen}}

TermInit ==
    /\ ARRAY \in TermInputs
    /\ sorted_arr = Empty
    /\ events = << >>
    /\ levels = << >>
    /\ merge_order = << >>
    /\ op = "init"
    /\ outcome = "none"
    /\ trials = << >>
    /\ locals = << >>

\* one activation quickSort(arr, low, high): if low < high, partition and
\* the two recursive calls, which become the next activations
quickSort_activation(arr, stack) ==
    LET low == stack[1][1]
        high == stack[1][2]
        p == partition(arr, low, high)
        made == <<<<low, p.pi - 1>>, <<p.pi + 1, high>>>>
    IN  IF low < high
        THEN [arr |-> p.arr, stack |-> made \o Tail(stack),
              ran |-> stack[1], made |-> made]
        ELSE [arr |-> arr, stack |-> Tail(stack), ran |-> stack[1], made |-> << >>]

\* one activation mergeSort(arr, left, right): if left < right, the two
\* recursive calls and then merge(arr, left, mid, right); a pending merge
\* is the frame <<left, mid, right>>
mergeSort_activation(arr, stack) ==
    LET f == stack[1]
        left == f[1]
        right == f[2]
        mid == (left + right) \div 2
        made == <<<<left, mid>>, <<mid + 1, right>>, <<left, mid, right>>>>
    IN  IF Len(f) = 3
        THEN [arr |-> merge(arr, f[1], f[2], f[3]), stack |-> Tail(stack),
              ran |-> f, made |-> << >>]
        ELSE IF left < right
             THEN [arr |-> arr, stack |-> made \o Tail(stack), ran |-> f, made |-> made]
             ELSE [arr |-> arr, stack |-> Tail(stack), ran |-> f, made |-> << >>]

\* the body of while True without the else branch: the loop never breaks
heap_rec_iteration_no_break(arr, n, i) ==
    LET l == 2 * i + 1
        r == 2 * i + 2
        largest1 == IF l < n /\ key(arr[l]) > key(arr[i]) THEN l ELSE i
        largest == IF r < n /\ key(arr[r]) > key(arr[largest1]) THEN r ELSE largest1
    IN  IF largest # i
        THEN [arr |-> swap(arr, i, largest), i |-> largest, brk |-> FALSE]
        ELSE [arr |-> arr, i |-> i, brk |-> FALSE]

\* heapsort_animation.py, heapify(n, i): one pass of the body of while True
\* (the pushes append to events and do not steer the loop; they are left out)
heap_rec_iteration(arr, n, i) ==
    LET l == 2 * i + 1
        r == 2 * i + 2
        largest1 == IF l < n /\ key(arr[l]) > key(arr[i]) THEN l ELSE i
        largest == IF r < n /\ key(arr[r]) > key(arr[largest1]) THEN r ELSE largest1
    IN  IF largest # i
        THEN [arr |-> swap(arr, i, largest), i |-> largest, brk |-> FALSE]
        ELSE [arr |-> arr, i |-> i, brk |-> TRUE]

\* quickSort(sorted_arr, 0, len(sorted_arr) - 1) is called
QuickSortEnter ==
    /\ op = "init"
    /\ sorted_arr' = ARRAY
    /\ locals' = <<[stack |-> <<<<0, Len0(ARRAY) - 1>>>>, ran |-> << >>, made |-> << >>]>>
    /\ op' = "quickSort_running"
    /\ UNCHANGED <<ARRAY, events, levels, merge_order, outcome, trials>>

QuickSortActivation ==
    /\ op = "quickSort_running"
    /\ locals[1].stack # << >>
    /\ LET r == quickSort_activation(sorted_arr, locals[1].stack)
       IN  /\ sorted_arr' = r.arr
           /\ locals' = <<[stack |-> r.stack, ran |-> r.ran, made |-> r.made]>>
           /\ outcome' = IF r.stack = << >> THEN "returned" ELSE "none"
    /\ UNCHANGED <<ARRAY, events, levels, merge_order, op, trials>>

\* mergeSort(sorted_arr, 0, len(sorted_arr) - 1) is called
MergeSortEnter ==
    /\ op = "init"
    /\ sorted_arr' = ARRAY
    /\ locals' = <<[stack |-> <<<<0, Len0(ARRAY) - 1>>>>, ran |-> << >>, made |-> << >>]>>
    /\ op' = "mergeSort_running"
    /\ UNCHANGED <<ARRAY, events, levels, merge_order, outcome, trials>>

MergeSortActivation ==
    /\ op = "mergeSort_running"
    /\ locals[1].stack # << >>
    /\ LET r == mergeSort_activation(sorted_arr, locals[1].stack)
       IN  /\ sorted_arr' = r.arr
           /\ locals' = <<[stack |-> r.stack, ran |-> r.ran, made |-> r.made]>>
           /\ outcome' = IF r.stack = << >> THEN "returned" ELSE "none"
    /\ UNCHANGED <<ARRAY, events, levels, merge_order, op, trials>>

\* the recorder calls heapify(n, i) on its working list, 0 <= i < n <= len
HeapifyEnter ==
    /\ op = "init"
    /\ \E n \in 1 .. Len0(ARRAY) : \E i \in 0 .. n - 1 :
          locals' = <<[n |-> n, i |-> i, from |-> i, was |-> i]>>
    /\ sorted_arr' = ARRAY
    /\ op' = "heapify_running"
    /\ UNCHANGED <<ARRAY, events, levels, merge_order, outcome, trials>>

HeapifyIteration ==
    /\ op = "heapify_running"
    /\ outcome = "none"
    /\ LET r == heap_rec_iteration(sorted_arr, locals[1].n, locals[1].i)
       IN  /\ sorted_arr' = r.arr
           /\ locals' = <<[locals[1] EXCEPT !.i = r.i, !.was = locals[1].i]>>
           /\ outcome' = IF r.brk THEN "returned" ELSE "none"
    /\ UNCHANGED <<ARRAY, events, levels, merge_order, op, trials>>

TermNext ==
    \/ QuickSortEnter
    \/ QuickSortActivation
    \/ MergeSortEnter
    \/ MergeSortActivation
    \/ HeapifyEnter
    \/ HeapifyIteration
    \/ HeapSortMain
    \/ BucketSortMain
    \/ QuickRecord
    \/ HeapRecord
    \/ BucketRecord
    \/ MergeScene

\* the interpreter keeps running the script: a step that can be taken is taken
TermSpec == TermInit /\ [][TermNext]_vars /\ WF_vars(TermNext)

\* ------------------------------------------------------------ properties
NonDecreasing(a) ==
    \A k \in DOMAIN a : (k + 1) \in DOMAIN a => key(a[k]) <= key(a[k + 1])
RECURSIVE BagOfList(_, _)
BagOfList(a, k) ==
    IF k >= Len0(a) THEN EmptyBag
    ELSE SetToBag({key(a[k])}) (+) BagOfList(a, k + 1)
\* b holds the same values as a, each as often as a does
SameMultiset(a, b) == DOMAIN a = DOMAIN b /\ BagOfList(a, 0) = BagOfList(b, 0)
HasDuplicates(a) == \E i, j \in DOMAIN a : i # j /\ key(a[i]) = key(a[j])
AllInDomain(a) == \A k \in DOMAIN a : InDomain(key(a[k]))

\* C1: after quickSort(arr, 0, len(arr) - 1) returns, arr is non-decreasing
\* and holds the same multiset of values as before the call.
C1_QuickSortSorts ==
    op = "quickSort" =>
        /\ outcome = "returned"
        /\ NonDecreasing(sorted_arr)
        /\ SameMultiset(sorted_arr, ARRAY)

C1_Witness ==
    /\ op = "quickSort"
    /\ Len0(ARRAY) >= 3
    /\ HasDuplicates(ARRAY)
    /\ ~NonDecreasing(ARRAY)
    /\ NonDecreasing(sorted_arr)

\* C2: after mergeSort(arr, 0, len(arr) - 1) returns, arr is non-decreasing
\* and holds the same multiset of values as before the call.
C2_MergeSortSorts ==
    op = "mergeSort" =>
        /\ outcome = "returned"
        /\ NonDecreasing(sorted_arr)
        /\ SameMultiset(sorted_arr, ARRAY)

C2_Witness ==
    /\ op = "mergeSort"
    /\ Len0(ARRAY) >= 3
    /\ HasDuplicates(ARRAY)
    /\ ~NonDecreasing(ARRAY)
    /\ NonDecreasing(sorted_arr)

\* C3: after heapSort(arr) returns, arr is non-decreasing and holds the same
\* multiset of values as before the call.
C3_HeapSortSorts ==
    op = "heapSort" =>
        /\ outcome = "returned"
        /\ NonDecreasing(sorted_arr)
        /\ SameMultiset(sorted_arr, ARRAY)

C3_Witness ==
    /\ op = "heapSort"
    /\ Len0(ARRAY) >= 3
    /\ HasDuplicates(ARRAY)
    /\ ~NonDecreasing(ARRAY)
    /\ NonDecreasing(sorted_arr)

\* The result of bucket_sort built as the claim describes it: value v goes
\* to bucket min(floor(n * v), n - 1), buckets are taken in index order and
\* each bucket is in non-decreasing order.
BucketOf(a, k) == Min((Len0(a) * key(a[k])) \div Den, Len0(a) - 1)
InBucketOrder(a) ==
    \A k \in DOMAIN a : (k + 1) \in DOMAIN a => BucketOf(a, k) <= BucketOf(a, k + 1)

\* C4: for every arr with all values in [0, 1), after bucket_sort(arr)
\* returns, arr is non-decreasing and holds the same multiset of values as
\* before; the values appear bucket by bucket, in bucket index order.
C4_BucketSortSorts ==
    (op = "bucket_sort" /\ AllInDomain(ARRAY)) =>
        /\ outcome = "returned"
        /\ NonDecreasing(sorted_arr)
        /\ SameMultiset(sorted_arr, ARRAY)
        /\ InBucketOrder(sorted_arr)

\* two different values fell into one bucket and insertion sort moved them
C4_Witness ==
    /\ op = "bucket_sort"
    /\ AllInDomain(ARRAY)
    /\ outcome = "returned"
    /\ NonDecreasing(sorted_arr)
    /\ \E i, j \in DOMAIN ARRAY :
          /\ i < j
          /\ key(ARRAY[i]) > key(ARRAY[j])
          /\ BucketOf(ARRAY, i) = BucketOf(ARRAY, j)

\* ------------------------------------------------ replay of recorded steps
EventsOfKind(evs, kind) == SelectSeq(evs, LAMBDA e : e.kind = kind)

\* exchange positions a and b for every "swap" event, in order
RECURSIVE ReplayQuick(_, _, _)
ReplayQuick(evs, a, k) ==
    IF k > Len(evs) THEN a
    ELSE ReplayQuick(evs,
                     IF evs[k].kind = "swap"
                     THEN [a EXCEPT ![evs[k].a] = a[evs[k].b], ![evs[k].b] = a[evs[k].a]]
                     ELSE a,
                     k + 1)

\* C5: applying every "swap" event of the quicksort record_events(original),
\* in order, to a copy of original yields the list plain quickSort produces.
C5_QuickReplay ==
    op = "quick_record" =>
        ValuesOf(ReplayQuick(events, ARRAY, 1))
            = ValuesOf(quickSort(ARRAY, 0, Len0(ARRAY) - 1))

\* two or more swaps were recorded, one of them a pivot placement
C5_Witness ==
    /\ op = "quick_record"
    /\ Len(EventsOfKind(events, "swap")) >= 2
    /\ \E k \in 1 .. Len(events) : events[k].kind = "swap" /\ events[k].b = events[k].hi

\* "swap" exchanges a and b, "extract" exchanges 0 and idx
RECURSIVE ReplayHeap(_, _, _)
ReplayHeap(evs, a, k) ==
    IF k > Len(evs) THEN a
    ELSE ReplayHeap(evs,
                    IF evs[k].kind = "swap"
                    THEN [a EXCEPT ![evs[k].a] = a[evs[k].b], ![evs[k].b] = a[evs[k].a]]
                    ELSE IF evs[k].kind = "extract"
                         THEN [a EXCEPT ![0] = a[evs[k].idx], ![evs[k].idx] = a[0]]
                         ELSE a,
                    k + 1)

\* C6: applying every "swap" and "extract" event of the heapsort
\* record_events(original), in order, to a copy of original yields the list
\* plain heapSort produces.
C6_HeapReplay ==
    op = "heap_record" =>
        ValuesOf(ReplayHeap(events, ARRAY, 1)) = ValuesOf(heapSort(ARRAY))

\* a sift-down went two levels deep, and a size-1 heap was left alone
C6_Witness ==
    /\ op = "heap_record"
    /\ Len0(ARRAY) >= 4
    /\ \E k \in 1 .. Len(events) - 1 :
          /\ events[k].kind = "after_swap"
          /\ events[k + 1].kind = "compare"
          /\ events[k + 1].l # 0 - 1
    /\ events[Len(events) - 1].kind = "after_extract"

\* C7: the "gather" events of the bucket record_events(arr) carry dest = 0,
\* 1, ..., n - 1 in that order, and writing arr[oi] to position dest for
\* each of them yields the list plain bucket_sort produces.
C7_BucketReplay ==
    (op = "bucket_record" /\ AllInDomain(ARRAY)) =>
        LET g == EventsOfKind(events, "gather")
            n == Len0(ARRAY)
        IN  /\ outcome = "returned"
            /\ Len(g) = n
            /\ \A k \in 1 .. n : g[k].dest = k - 1
            /\ [d \in 0 .. n - 1 |-> key(ARRAY[g[d + 1].oi])]
                   = ValuesOf(bucket_sort(ARRAY).arr)

\* the recorder shifted an element inside a bucket before gathering
C7_Witness ==
    /\ op = "bucket_record"
    /\ AllInDomain(ARRAY)
    /\ Len0(ARRAY) >= 3
    /\ Len(EventsOfKind(events, "isort_shift")) >= 1
    /\ Len(EventsOfKind(events, "gather")) = Len0(ARRAY)

\* C8: performing the scene's left-biased merge on a working copy for each
\* triple of build_tree(arr)'s merge_order, in list order, yields the list
\* plain mergeSort produces on arr.
C8_MergeReplay ==
    op = "merge_scene" =>
        ValuesOf(sorted_arr) = ValuesOf(mergeSort(ARRAY, 0, Len0(ARRAY) - 1))

C8_Witness ==
    /\ op = "merge_scene"
    /\ Len(merge_order) >= 3
    /\ ~NonDecreasing(ARRAY)
    /\ NonDecreasing(sorted_arr)

\* ---------------------------------------------------------------- stability
\* the original index of an element (the second component of the pair)
OriginalIndex(e) == e[2]
\* elements of equal value keep the order they had in the input
Stable(a) ==
    \A i, j \in DOMAIN a :
        (i < j /\ key(a[i]) = key(a[j])) => OriginalIndex(a[i]) < OriginalIndex(a[j])

\* C9: mergeSort is stable: on (value, original_index) pairs compared by
\* value only, two elements of equal value leave mergeSort in the relative
\* order they had in the input.
C9_MergeSortStable ==
    op = "mergeSort" => Stable(sorted_arr)

\* equal values were merged from different runs while other elements moved
C9_Witness ==
    /\ op = "mergeSort"
    /\ Len0(ARRAY) >= 4
    /\ key(ARRAY[1]) = key(ARRAY[2])
    /\ key(ARRAY[0]) > key(ARRAY[1])
    /\ key(ARRAY[3]) < key(ARRAY[2])
    /\ Stable(sorted_arr)

\* ------------------------------------------------------- out-of-domain input
\* C10: when any value of the input is outside [0, 1), bucket_sort fails
\* with an error (InvalidInput) instead of returning normally; it never
\* returns with the list not sorted.  Any exception is counted as the
\* rejection here, whatever its name.
C10_RejectsOutOfDomain ==
    (op = "bucket_sort" /\ ~AllInDomain(ARRAY)) =>
        /\ outcome # "returned"
        /\ ~(outcome = "returned" /\ ~NonDecreasing(sorted_arr))

\* ------------------------------------------------------- bucket index range
\* C11: for every n >= 1 and every value v with 0 <= v < 1 the bucket index
\* min(int(n * v), n - 1) lies in 0 .. n-1, in bucket_sort and in the bucket
\* recorder alike: no element is appended outside the n allocated buckets.
C11_BucketIndexInRange ==
    (op \in {"bucket_sort", "bucket_record"} /\ Len0(ARRAY) >= 1) =>
        LET n == Len0(ARRAY)
        IN  /\ \A v \in DomainValues :
                  0 <= bucket_index(n, v) /\ bucket_index(n, v) <= n - 1
            /\ AllInDomain(ARRAY) =>
                  /\ outcome = "returned"
                  /\ op = "bucket_record" =>
                        /\ Len(EventsOfKind(events, "scatter")) = n
                        /\ \A k \in DOMAIN events :
                              events[k].kind = "scatter" =>
                                  0 <= events[k].bi /\ events[k].bi <= n - 1

\* the largest value below 1 was scattered into the last of three or more
\* buckets
C11_Witness ==
    /\ op = "bucket_record"
    /\ AllInDomain(ARRAY)
    /\ Len0(ARRAY) >= 3
    /\ \E k \in DOMAIN events :
          /\ events[k].kind = "scatter"
          /\ events[k].val = Den - 1
          /\ events[k].bi = Len0(ARRAY) - 1

\* ------------------------------------------------------------ boundary cases
EngineOps == {"quickSort", "mergeSort", "heapSort", "bucket_sort"}

\* C12 as stated: on an empty and on a single-element sequence each of the
\* four engines returns without error and leaves arr unchanged, whatever the
\* element is.
C12_BoundaryAnyValue ==
    (op \in EngineOps /\ Len0(ARRAY) <= 1) =>
        /\ outcome = "returned"
        /\ sorted_arr = ARRAY

\* C12: on an empty sequence each of the four engines returns without error
\* and leaves arr empty; on a single-element sequence each returns without
\* error and leaves arr unchanged, for bucket_sort when the element lies in
\* [0, 1).
C12_Boundary ==
    (/\ op \in EngineOps
     /\ Len0(ARRAY) <= 1
     /\ op = "bucket_sort" => AllInDomain(ARRAY)) =>
        /\ outcome = "returned"
        /\ sorted_arr = ARRAY

\* bucket_sort returned a one-element list as it was
C12_Witness ==
    /\ op = "bucket_sort"
    /\ Len0(ARRAY) = 1
    /\ AllInDomain(ARRAY)
    /\ key(ARRAY[0]) = Den - 1
    /\ outcome = "returned"
    /\ sorted_arr = ARRAY

\* ------------------------------------------------- single-element recordings
KindsOf(evs) == {evs[k].kind : k \in DOMAIN evs}
\* the records heap_record_events emits for every input, the empty list
\* included: the two phase banners, heap_ready and done
HeapFrameKinds == {"phase", "heap_ready", "done"}

\* C13: for a single-element input each recorder emits a minimal "already
\* sorted" record for that element (quicksort: sorted_idx of index 0; bucket
\* sort: bucket_done of its bucket; heapsort: any record beyond those it
\* emits for the empty list), no comparison event and no mutation event.
C13_SingleElementRecord ==
    (/\ op \in {"quick_record", "heap_record", "bucket_record"}
     /\ Len0(ARRAY) = 1
     /\ op = "bucket_record" => AllInDomain(ARRAY)) =>
        /\ KindsOf(events) \cap
               {"compare", "isort_compare", "swap", "extract", "isort_shift"} = {}
        /\ op = "quick_record" =>
               \E k \in DOMAIN events :
                   events[k].kind = "sorted_idx" /\ events[k].idx = 0
        /\ op = "bucket_record" =>
               \E k \in DOMAIN events :
                   events[k].kind = "bucket_done" /\ events[k].bi = 0
        /\ op = "heap_record" => KindsOf(events) \ HeapFrameKinds # {}

\* ------------------------------------------------------- the caller's list
RecorderOps == {"quick_record", "heap_record", "bucket_record", "merge_scene"}

\* C14: after record_events(x) of the quicksort, heapsort or bucket-sort
\* recorder, or build_tree(x), returns, the caller's list x has exactly the
\* contents and order it had before the call.
C14_RecordersPure == [][op' \in RecorderOps => ARRAY' = ARRAY]_vars

\* the quicksort recorder swapped elements of its working copy and the
\* caller's list is still out of order
C14_Witness ==
    /\ op = "quick_record"
    /\ Len(events) > 0
    /\ EventsOfKind(events, "swap") # << >>
    /\ NonDecreasing(events[Len(events)].data)
    /\ ~NonDecreasing(ARRAY)

\* --------------------------------------------------------- identity threading
\* C15: in the bucket recorder every event that references an element
\* carries that element's original input index: a scatter event's val is
\* arr[oi], in every isort_compare event cmp = arr[oi_j] and key =
\* arr[key_oi], every isort_shift event's oi is the element the preceding
\* comparison found at from_slot, and the oi values of the gather events are
\* a permutation of 0 .. n-1.
C15_IdentityThreading ==
    (op = "bucket_record" /\ outcome = "returned") =>
        LET n == Len0(ARRAY)
            gathers == EventsOfKind(events, "gather")
            scatters == EventsOfKind(events, "scatter")
        IN  /\ Len(scatters) = n
            /\ \A k \in DOMAIN scatters :
                  /\ scatters[k].oi = k - 1
                  /\ scatters[k].val = key(ARRAY[scatters[k].oi])
            /\ \A k \in DOMAIN events :
                  /\ events[k].kind = "isort_compare" =>
                        /\ events[k].oi_j \in DOMAIN ARRAY
                        /\ events[k].key_oi \in DOMAIN ARRAY
                        /\ events[k].cmp = key(ARRAY[events[k].oi_j])
                        /\ events[k].key = key(ARRAY[events[k].key_oi])
                  /\ events[k].kind = "isort_shift" =>
                        /\ k > 1
                        /\ events[k - 1].kind = "isort_compare"
                        /\ events[k - 1].bi = events[k].bi
                        /\ events[k - 1].slot_j = events[k].from_slot
                        /\ events[k - 1].oi_j = events[k].oi
                        /\ events[k].to_slot = events[k].from_slot + 1
            /\ Len(gathers) = n
            /\ {gathers[k].oi : k \in DOMAIN gathers} = 0 .. n - 1

\* insertion sort shifted an element twice, so a later comparison and shift
\* name an element that is no longer in the slot it was scattered to
C15_Witness ==
    /\ op = "bucket_record"
    /\ outcome = "returned"
    /\ \E k \in DOMAIN events :
          /\ events[k].kind = "isort_shift"
          /\ events[k].from_slot = 1
          /\ events[k].oi # 1
    /\ \E k \in DOMAIN events :
          events[k].kind = "gather" /\ events[k].oi # events[k].dest

\* ---------------------------------------------------------------- idempotence
AgainOps == {"quickSort_again", "mergeSort_again", "heapSort_again",
             "bucket_sort_again"}

\* C16: running an engine a second time on its own output (values in [0, 1)
\* for bucket sort) returns and leaves the value sequence unchanged.
C16_Idempotent ==
    [][(/\ op' \in AgainOps
        /\ op' = "bucket_sort_again" => AllInDomain(ARRAY))
       => /\ outcome' = "returned"
          /\ ValuesOf(sorted_arr') = ValuesOf(sorted_arr)]_vars

\* the second heapSort run reordered equal elements of a list the first run
\* had sorted, and the values are still in order
C16_Witness ==
    /\ op = "heapSort_again"
    /\ HasDuplicates(ARRAY)
    /\ ~NonDecreasing(ARRAY)
    /\ sorted_arr # heapSort(ARRAY)
    /\ ValuesOf(sorted_arr) = ValuesOf(heapSort(ARRAY))

\* ------------------------------------------------------- quicksort scenario
\* C17: quickSort on [5, 3, 8, 4, 2] produces [2, 3, 4, 5, 8], and the first
\* event the quicksort recorder returns for that input is a "pivot" event of
\* the initial call (lo = 0, hi = 4) whose pivot is the last element, 2.
C17_Scenario ==
    ValuesOf(ARRAY) = Scenario =>
        /\ op = "quickSort" => ValuesOf(sorted_arr) = ScenarioSorted
        /\ op = "quickSort" => outcome = "returned"
        /\ op = "quick_record" =>
              /\ Len(events) >= 1
              /\ events[1].kind = "pivot"
              /\ events[1].lo = 0
              /\ events[1].hi = 4
              /\ events[1].pivot_idx = 4
              /\ key(events[1].data[events[1].pivot_idx]) = 2
              /\ ValuesOf(events[Len(events)].data) = ScenarioSorted

\* the recorder ran on the scenario list and recorded the pivot first
C17_Witness ==
    /\ op = "quick_record"
    /\ ValuesOf(ARRAY) = Scenario
    /\ Len(events) > 1
    /\ events[1].kind = "pivot"
    /\ events[1].data = ARRAY
    /\ events[Len(events)].kind = "done"

\* ------------------------------------------------------------ benchmark trials
BenchOps == {"quick_benchmark", "bucket_benchmark", "analysis_run",
             "analysis_benchmark"}

\* C18: for every input arr and runs >= 1, each trial of benchmark(arr, runs)
\* and each call of run(arr) sorts a copy whose initial contents equal the
\* original arr, and arr itself is unchanged when benchmark or run returns.
C18_FreshCopies ==
    [][op' \in BenchOps =>
          /\ ARRAY' = ARRAY
          /\ Len(trials') >= 1
          /\ \A t \in DOMAIN trials' : trials'[t].given = ARRAY
          /\ outcome' = "returned" =>
                \A t \in DOMAIN trials' :
                    ValuesOf(trials'[t].left) = ValuesOf(trials'[1].left)]_vars

\* the second trial of a benchmark got the unsorted list although the first
\* trial had sorted its copy
C18_Witness ==
    /\ op = "quick_benchmark"
    /\ Len(trials) >= 2
    /\ ~NonDecreasing(ARRAY)
    /\ NonDecreasing(trials[1].left)
    /\ trials[2].given = ARRAY
    /\ trials[2].given # trials[1].left

\* ------------------------------------------------------------------ partition
\* C19: for every arr and 0 <= low < high < len(arr), with v = arr[high]
\* before the call, partition(arr, low, high) returns pi with low <= pi <=
\* high; afterwards arr[pi] = v, every element of arr[low .. pi-1] is
\* strictly less than v, every element of arr[pi+1 .. high] is >= v, and
\* arr[low .. high] is a permutation of what it held before.  The inline
\* partition of quicksort_analysis.quicksort leaves the same list.
C19_PartitionPost ==
    op = "partition" =>
        LET low == locals.low
            high == locals.high
            pi == locals.pi
            v == key(ARRAY[high])
            inl == analysis_loop(ARRAY, ARRAY[high], low - 1, low, high)
        IN  /\ low <= pi /\ pi <= high
            /\ key(sorted_arr[pi]) = v
            /\ \A k \in low .. pi - 1 : key(sorted_arr[k]) < v
            /\ \A k \in pi + 1 .. high : key(sorted_arr[k]) >= v
            /\ DOMAIN sorted_arr = DOMAIN ARRAY
            /\ SameMultiset(Slice(sorted_arr, low, high + 1),
                            Slice(ARRAY, low, high + 1))
            /\ \A k \in DOMAIN ARRAY \ (low .. high) : sorted_arr[k] = ARRAY[k]
            /\ swap(inl.arr, inl.i + 1, high) = sorted_arr
            /\ inl.i + 1 = pi

\* a partition of an inner range with elements on both sides of the pivot
\* and an element equal to the pivot on its right
C19_Witness ==
    /\ op = "partition"
    /\ locals.low > 0
    /\ locals.low < locals.pi
    /\ locals.pi < locals.high
    /\ sorted_arr # ARRAY
    /\ \E k \in locals.pi + 1 .. locals.high :
          key(sorted_arr[k]) = key(sorted_arr[locals.pi])

\* ------------------------------------------------------ heapsort loop invariant
\* a[0 .. m-1] is a max-heap: every parent is >= its children
IsMaxHeap(a, m) ==
    \A k \in 0 .. m - 1 :
        /\ 2 * k + 1 < m => key(a[k]) >= key(a[2 * k + 1])
        /\ 2 * k + 2 < m => key(a[k]) >= key(a[2 * k + 2])
\* the state at the start of the extraction iteration with index i
ExtractInvariant(a, i) ==
    /\ IsMaxHeap(a, i + 1)
    /\ \A k \in i + 1 .. Len0(a) - 2 : key(a[k]) <= key(a[k + 1])
    /\ \A h \in 0 .. i : \A t \in i + 1 .. Len0(a) - 1 : key(a[t]) >= key(a[h])

\* C20: when the build loop of heapSort finishes, arr[0 .. n-1] is a
\* max-heap; at the start of each extraction iteration with index i (and when
\* the loop ends, i = 0) arr[0 .. i] is a max-heap, arr[i+1 .. n-1] is
\* non-decreasing and each of its elements is >= every element of
\* arr[0 .. i].  The recorder's heap_ready and extract snapshots show the
\* same, and the steps end in the list heapSort returns.
C20_HeapLoopInvariant ==
    /\ op = "heap_built" =>
          /\ locals.i = Len0(ARRAY) - 1
          /\ IsMaxHeap(sorted_arr, Len0(sorted_arr))
          /\ SameMultiset(sorted_arr, ARRAY)
    /\ op \in {"heap_built", "heap_extract"} =>
          /\ ExtractInvariant(sorted_arr, locals.i)
          /\ locals.i <= 0 => sorted_arr = heapSort(ARRAY)
    /\ op = "heap_record" =>
          \A k \in DOMAIN events :
              /\ events[k].kind = "heap_ready" =>
                    IsMaxHeap(events[k].arr, Len0(events[k].arr))
              /\ events[k].kind = "extract" =>
                    ExtractInvariant(events[k].arr, events[k].idx)

\* two extractions are done: a heap of two or more elements is left in
\* front of a sorted tail of two, and the list is not yet in order
C20_Witness ==
    /\ op = "heap_extract"
    /\ locals.i >= 1
    /\ locals.i = Len0(ARRAY) - 3
    /\ ~NonDecreasing(sorted_arr)
    /\ key(sorted_arr[0]) < key(sorted_arr[locals.i + 1])

\* ------------------------------------------------------- final positions
\* C21: in the quicksort recording every index 0 .. n-1 is announced by
\* exactly one sorted_idx event; from that event on the value at that index
\* is the same in every later snapshot, the last one (the sorted array)
\* included; the done event's sorted_set is 0 .. n-1.
C21_SortedIdxFinal ==
    op = "quick_record" =>
        LET n == Len0(ARRAY)
            announced == EventsOfKind(events, "sorted_idx")
        IN  /\ Len(announced) = n
            /\ {announced[k].idx : k \in DOMAIN announced} = 0 .. n - 1
            /\ \A k \in DOMAIN events :
                  events[k].kind = "sorted_idx" =>
                      /\ events[k].idx \in events[k].sorted_set
                      /\ \A m \in k .. Len(events) :
                            events[m].data[events[k].idx]
                                = events[k].data[events[k].idx]
            /\ Len(events) >= 1
            /\ events[Len(events)].kind = "done"
            /\ events[Len(events)].sorted_set = 0 .. n - 1
            /\ NonDecreasing(events[Len(events)].data)

\* an element was announced as final while a later step still swapped others
C21_Witness ==
    /\ op = "quick_record"
    /\ Len0(ARRAY) >= 4
    /\ \E k, m \in DOMAIN events :
          /\ k < m
          /\ events[k].kind = "sorted_idx"
          /\ events[m].kind = "swap"
          /\ events[k].idx # 0

\* ------------------------------------------------------ intermediate states
\* C22: the first event's snapshot is the input; after a swap event the
\* next snapshot is the previous one with positions a and b exchanged,
\* after any other event the next snapshot is the same; the done event's
\* snapshot is the sorted array.
C22_LogReconstructs ==
    op = "quick_record" =>
        /\ Len(events) >= 1
        /\ events[1].data = ARRAY
        /\ \A k \in 1 .. Len(events) - 1 :
              events[k + 1].data =
                  IF events[k].kind = "swap"
                  THEN swap(events[k].data, events[k].a, events[k].b)
                  ELSE events[k].data
        /\ events[Len(events)].kind = "done"
        /\ NonDecreasing(events[Len(events)].data)
        /\ SameMultiset(events[Len(events)].data, ARRAY)
        /\ ValuesOf(events[Len(events)].data)
               = ValuesOf(quickSort(ARRAY, 0, Len0(ARRAY) - 1))

\* a recording with three different snapshots
C22_Witness ==
    /\ op = "quick_record"
    /\ \E k, m \in DOMAIN events :
          /\ k < m
          /\ events[k].kind = "swap"
          /\ events[m].kind = "swap"
          /\ events[k].data # ARRAY
          /\ events[m].data # events[k].data
          /\ events[Len(events)].data # events[m].data

\* ------------------------------------------------------- scene identity maps
\* C23: after the quicksort scene has replayed any prefix of the event list,
\* slot and at_pos are mutually inverse permutations of 0 .. n-1, and the
\* values seen through the maps equal the snapshot of the event that is
\* processed next (of the last event once all are processed):
\* arr[at_pos[s]] = ev["data"][s] for every screen position s.
C23_SceneMapsInSync ==
    op = "quick_record" =>
        /\ Len(locals) = Len(events) + 1
        /\ \A j \in DOMAIN locals :
              LET n == Len0(ARRAY)
                  slot == locals[j].slot
                  at_pos == locals[j].at_pos
                  ev == events[IF j <= Len(events) THEN j ELSE Len(events)]
              IN  /\ locals[j].k = j - 1
                  /\ DOMAIN slot = 0 .. n - 1
                  /\ DOMAIN at_pos = 0 .. n - 1
                  /\ \A v \in 0 .. n - 1 :
                        slot[v] \in 0 .. n - 1 /\ at_pos[slot[v]] = v
                  /\ \A p \in 0 .. n - 1 :
                        at_pos[p] \in 0 .. n - 1 /\ slot[at_pos[p]] = p
                  /\ \A p \in 0 .. n - 1 : ARRAY[at_pos[p]] = ev.data[p]

\* the replay got past swaps that left the maps a cycle of three, with a
\* further swap still to come
C23_Witness ==
    /\ op = "quick_record"
    /\ \E j \in DOMAIN locals :
          /\ j <= Len(events)
          /\ \E v \in DOMAIN locals[j].slot :
                locals[j].slot[locals[j].slot[v]] # v
          /\ \E m \in j .. Len(events) : events[m].kind = "swap"

\* ------------------------------------------------------- heapsort scene mirror
\* C24: while the heapsort scene replays the event list (do_swap(a, b) on a
\* swap event, do_swap(0, idx) on an extract event), val equals the arr
\* snapshot of every event at the moment it is taken from the list, and
\* the sorted array once done has been processed.
C24_HeapSceneMirror ==
    op = "heap_record" =>
        /\ Len(locals) = Len(events) + 1
        /\ \A j \in DOMAIN locals :
              /\ locals[j].k = j - 1
              /\ j <= Len(events) => locals[j].val = events[j].arr
              /\ locals[j].sorted_from = locals[j].heap_size
        /\ LET last == locals[Len(locals)]
           IN  /\ events[Len(events)].kind = "done"
               /\ last.val = events[Len(events)].arr
               /\ NonDecreasing(last.val)
               /\ SameMultiset(last.val, ARRAY)
               /\ last.val = heapSort(ARRAY)

\* the replay has moved the maximum behind the heap and is at a swap of the
\* sift-down that follows
C24_Witness ==
    /\ op = "heap_record"
    /\ \E j \in DOMAIN events :
          /\ events[j].kind = "swap"
          /\ locals[j].heap_size < Len0(ARRAY)
          /\ locals[j].heap_size >= 2
          /\ locals[j].val # ARRAY

\* ------------------------------------------------------------- merge order
\* the working array after the first k merges of merge_order
SimAfter(k) == scene_merge_phase(ARRAY, SubSeq(merge_order, 1, k), 1)

\* C25: every triple (l, m, r) of build_tree's merge_order has l < r and
\* m = (l + r) // 2; the triples of its sub-ranges [l, m] and [m+1, r], when
\* these hold more than one element, come earlier in the list; for n >= 1
\* there are exactly n - 1 triples and for n >= 2 the last covers (0, n-1);
\* at each merge both sub-ranges of the working array are non-decreasing.
C25_MergeOrderPostOrder ==
    op = "merge_scene" =>
        LET n == Len0(ARRAY)
        IN  /\ n >= 1 => Len(merge_order) = n - 1
            /\ n >= 2 => /\ merge_order[n - 1][1] = 0
                         /\ merge_order[n - 1][3] = n - 1
            /\ \A k \in DOMAIN merge_order :
                  LET l == merge_order[k][1]
                      m == merge_order[k][2]
                      r == merge_order[k][3]
                      sim == SimAfter(k - 1)
                  IN  /\ 0 <= l /\ l < r /\ r <= n - 1
                      /\ m = (l + r) \div 2
                      /\ l < m => \E j \in 1 .. k - 1 :
                                     merge_order[j][1] = l /\ merge_order[j][3] = m
                      /\ m + 1 < r => \E j \in 1 .. k - 1 :
                                         merge_order[j][1] = m + 1 /\ merge_order[j][3] = r
                      /\ NonDecreasing(Slice(sim, l, m + 1))
                      /\ NonDecreasing(Slice(sim, m + 1, r + 1))

\* a merge of two runs of two elements each that the earlier merges had to
\* put in order
C25_Witness ==
    /\ op = "merge_scene"
    /\ Len0(ARRAY) = 4
    /\ Len(merge_order) = 3
    /\ merge_order[3] = <<0, 1, 3>>
    /\ ~NonDecreasing(Slice(ARRAY, 0, 2))
    /\ ~NonDecreasing(Slice(ARRAY, 2, 4))
    /\ ~NonDecreasing(SimAfter(2))

\* ------------------------------------------------------ shape of the event log
\* the index of the first sorted_idx event after event k (0 if there is none)
PartitionEnd(k) ==
    LET later == {m \in k + 1 .. Len(events) : events[m].kind = "sorted_idx"}
    IN  IF later = {} THEN 0 ELSE CHOOSE m \in later : \A x \in later : m <= x

\* C26: in the quicksort event log every partition of [lo, hi] with lo < hi
\* starts with one pivot event with pivot_idx = hi, followed by exactly
\* hi - lo compare events with j = lo, lo+1, ..., hi-1 in ascending order,
\* interleaved only with swaps, and ends with one sorted_idx event; every
\* recorded swap has lo <= a < b <= hi.
C26_LogShape ==
    op = "quick_record" =>
        \A k \in DOMAIN events :
            /\ events[k].kind = "pivot" =>
                  LET lo == events[k].lo
                      hi == events[k].hi
                      e == PartitionEnd(k)
                      compares == SelectSeq(SubSeq(events, k + 1, e - 1),
                                            LAMBDA ev : ev.kind = "compare")
                  IN  /\ lo < hi
                      /\ events[k].pivot_idx = hi
                      /\ k > 1 => events[k - 1].kind = "sorted_idx"
                      /\ e > k
                      /\ events[e].lo = lo /\ events[e].hi = hi
                      /\ events[e].idx \in lo .. hi
                      /\ \A m \in k + 1 .. e - 1 :
                            /\ events[m].kind \in {"compare", "swap"}
                            /\ events[m].lo = lo /\ events[m].hi = hi
                            /\ events[m].pivot_idx = hi
                      /\ Len(compares) = hi - lo
                      /\ \A c \in DOMAIN compares : compares[c].j = lo + c - 1
            /\ events[k].kind = "swap" =>
                  /\ events[k].lo <= events[k].a
                  /\ events[k].a < events[k].b
                  /\ events[k].b <= events[k].hi
            /\ events[k].kind \in {"compare", "swap"} =>
                  \E p \in 1 .. k - 1 :
                      /\ events[p].kind = "pivot"
                      /\ PartitionEnd(p) > k
            /\ events[k].kind = "sorted_idx" =>
                  \/ events[k].lo = events[k].hi
                  \/ \E p \in 1 .. k - 1 :
                        events[p].kind = "pivot" /\ PartitionEnd(p) = k

\* a partition of four elements: three comparisons with a swap between them
\* and the swap that places the pivot
C26_Witness ==
    /\ op = "quick_record"
    /\ \E k \in DOMAIN events :
          /\ events[k].kind = "pivot"
          /\ events[k].hi - events[k].lo = 3
          /\ PartitionEnd(k) >= k + 6

\* ----------------------------------------------------------------- the clamp
NonNegative(a) == \A k \in DOMAIN a : key(a[k]) >= 0

\* C27: for every sequence of non-negative values, values >= 1 included
\* (the clamp sends them to the last bucket), bucket_sort returns normally
\* and leaves arr a non-decreasing permutation of its input.
C27_ClampSorts ==
    (op = "bucket_sort" /\ NonNegative(ARRAY)) =>
        /\ outcome = "returned"
        /\ NonDecreasing(sorted_arr)
        /\ SameMultiset(sorted_arr, ARRAY)

\* a value >= 1 came before a smaller value of the last bucket and
\* insertion sort moved it behind
C27_Witness ==
    /\ op = "bucket_sort"
    /\ NonNegative(ARRAY)
    /\ outcome = "returned"
    /\ \E i, j \in DOMAIN ARRAY :
          /\ i < j
          /\ key(ARRAY[i]) >= Den
          /\ InDomain(key(ARRAY[j]))
          /\ bucket_index(Len0(ARRAY), key(ARRAY[j])) = Len0(ARRAY) - 1
          /\ sorted_arr[i] = ARRAY[j]

\* ------------------------------------------------------------------ worst case
StrictlyAscending(a) ==
    \A k \in DOMAIN a : (k + 1) \in DOMAIN a => key(a[k]) < key(a[k + 1])
StrictlyDescending(a) ==
    \A k \in DOMAIN a : (k + 1) \in DOMAIN a => key(a[k]) > key(a[k + 1])
AllEqual(a) == \A i, j \in DOMAIN a : key(a[i]) = key(a[j])

\* C28: on an input of length n that is strictly ascending, strictly
\* descending or constant the quicksort recorder emits exactly n*(n-1)/2
\* compare events, and on no input of length n does it emit more.
C28_WorstCaseCompares ==
    op = "quick_record" =>
        LET n == Len0(ARRAY)
            compares == Len(EventsOfKind(events, "compare"))
        IN  /\ compares <= (n * (n - 1)) \div 2
            /\ (\/ StrictlyAscending(ARRAY)
                \/ StrictlyDescending(ARRAY)
                \/ AllEqual(ARRAY)) => compares = (n * (n - 1)) \div 2

\* a strictly descending list of four elements was recorded with six
\* comparisons
C28_Witness ==
    /\ op = "quick_record"
    /\ Len0(ARRAY) = 4
    /\ StrictlyDescending(ARRAY)
    /\ Len(EventsOfKind(events, "compare")) = 6

\* ----------------------------------------------------------------- termination
\* the number of elements of the range of an activation; a pending merge
\* is not a recursive call
RangeSize(f) == IF f[2] >= f[1] THEN f[2] - f[1] + 1 ELSE 0
RecursiveCalls(made) == SelectSeq(made, LAMBDA f : Len(f) = 2)

\* C29: every engine and every recorder terminates on every finite input;
\* every recursive call of quickSort and of mergeSort is on a strictly
\* smaller range than its caller's; the while True loop of the heapsort
\* recorder's heapify reaches its break: on each swap i strictly increases
\* and stays below n.
C29_Terminates ==
    /\ <>(outcome # "none")
    /\ [](op \in {"quickSort_running", "mergeSort_running"} =>
             \A k \in DOMAIN RecursiveCalls(locals[1].made) :
                 RangeSize(RecursiveCalls(locals[1].made)[k]) < RangeSize(locals[1].ran))
    /\ [](op = "heapify_running" =>
             /\ locals[1].i < locals[1].n
             /\ locals[1].i # locals[1].was => locals[1].i > locals[1].was
             /\ outcome = "none" =>
                    (locals[1].i > locals[1].was \/ locals[1].i = locals[1].from))
    /\ [](op = "quickSort_running" /\ outcome = "returned"
             => sorted_arr = quickSort(ARRAY, 0, Len0(ARRAY) - 1))
    /\ [](op = "mergeSort_running" /\ outcome = "returned"
             => sorted_arr = mergeSort(ARRAY, 0, Len0(ARRAY) - 1))
    /\ [](op = "heapify_running" /\ outcome = "returned"
             => sorted_arr = heapify(ARRAY, locals[1].n, locals[1].from))

\* a heapify call from the root that broke out of its loop after two swaps
C29_Witness ==
    /\ op = "heapify_running"
    /\ outcome = "returned"
    /\ locals[1].from = 0
    /\ locals[1].i >= 3

\* ------------------------------------------------------------- stability
\* C30: heapSort is not stable: there are inputs of (value, original_index)
\* pairs, compared by value only, that it returns with two elements of equal
\* value in the opposite order.  Every constant input of two or more
\* elements is one: no heapify call swaps, the extraction loop moves the
\* first element of the input to the last position, and every other element
\* one position to the left.
C30_HeapSortNotStable ==
    (op = "heapSort" /\ Len0(ARRAY) >= 2 /\ AllEqual(ARRAY)) =>
        /\ ~Stable(sorted_arr)
        /\ sorted_arr[Len0(ARRAY) - 1] = ARRAY[0]
        /\ \A k \in 1 .. Len0(ARRAY) - 1 : sorted_arr[k - 1] = ARRAY[k]

\* heapSort returned three equal values with the first of the input last
C30_Witness ==
    /\ op = "heapSort"
    /\ Len0(ARRAY) = 3
    /\ AllEqual(ARRAY)
    /\ OriginalIndex(sorted_arr[2]) = 0
    /\ OriginalIndex(sorted_arr[0]) = 1
    /\ ~Stable(sorted_arr)

====
